---- MODULE Spec2Model ----
(***************************************************************************)
(* Model of the single-line text-editing core of clay_kit.h:               *)
(*   claykit_input_delete_selection, ClayKit_InputHandleKey,               *)
(*   ClayKit_InputHandleChar                                               *)
(* operating on a ClayKit_InputState (buf, cap, len, cursor, select_start).*)
(* The buffer is modelled as the whole caller-owned array buf[0..cap-1],   *)
(* including the stale bytes at and past len; every loop of the source is  *)
(* unrolled by a recursive operator that performs the same byte copies in  *)
(* the same order and records each index it reads and writes.              *)
(* Also modelled: ClayKit_InputGetCursorFromX with the host's click        *)
(* handling, and the ClayKit_Context (widget state store and focus).       *)
(***************************************************************************)
EXTENDS Integers, Sequences, FiniteSets, TLC

VARIABLES cap, buf, len, cursor, select_start, ctx, call

vars == <<cap, buf, len, cursor, select_start, ctx, call>>

(***************************************************************************)
(* Bounds of the model                                                     *)
(***************************************************************************)
\* largest capacity of the caller-owned array that is explored
MaxCap == 4

(***************************************************************************)
(* Program constants                                                       *)
(***************************************************************************)
CLAYKIT_KEY_NONE == 0
CLAYKIT_KEY_BACKSPACE == 1
CLAYKIT_KEY_DELETE == 2
CLAYKIT_KEY_LEFT == 3
CLAYKIT_KEY_RIGHT == 4
CLAYKIT_KEY_HOME == 5
CLAYKIT_KEY_END == 6
CLAYKIT_KEY_ENTER == 7
CLAYKIT_KEY_TAB == 8

CLAYKIT_MOD_NONE == 0
CLAYKIT_MOD_SHIFT == 1
CLAYKIT_MOD_CTRL == 2
CLAYKIT_MOD_ALT == 4

\* the byte ' ' that separates words
SPACE == 32
\* first and last code point accepted by ClayKit_InputHandleChar
PRINTABLE_MIN == 32
PRINTABLE_MAX == 126

\* The fields are uint32_t.  Every subtraction of the editing core is guarded
\* by the code so that it cannot wrap when cursor <= len, select_start <= len
\* and cap >= 1 hold on entry (end - start after min/max, len - del_len with
\* del_len <= len, cursor - 1 under cursor > 0, len - 1 under cursor > 0 or
\* cursor < len, cap - 1, i - 1 under i > cursor), and no sum exceeds cap;
\* IndexInvariant below establishes these entry conditions for every call,
\* so the arithmetic is written with the unbounded integer operators.

(***************************************************************************)
(* Inputs                                                                  *)
(***************************************************************************)
\* key values handed to ClayKit_InputHandleKey: the enumeration and one
\* value outside it
Keys == 0 .. 9
\* modifier masks: every combination of Shift, Ctrl and Alt
Mods == 0 .. 7
\* code points handed to ClayKit_InputHandleChar: tab, newline, the last
\* control character, the two ends of the printable range, DEL, the first
\* non-ASCII code point, and a code point above 0x7E whose low byte is '~'
Codepoints == {9, 10, 31, 32, 126, 127, 128, 382}

\* (char)codepoint : the low byte of the code point
CharOf(codepoint) == codepoint % 256

\* bool shift = (mods & CLAYKIT_MOD_SHIFT) != 0
ShiftOf(mods) == (mods \div CLAYKIT_MOD_SHIFT) % 2 = 1
\* bool ctrl = (mods & CLAYKIT_MOD_CTRL) != 0
CtrlOf(mods) == (mods \div CLAYKIT_MOD_CTRL) % 2 = 1

(***************************************************************************)
(* The ClayKit_InputState an operation works on, as a record               *)
(*   [buf, cap, len, cursor, select_start, rd, wr]                         *)
(* rd / wr are the sets of indices of buf read / written during the call.  *)
(***************************************************************************)
\* s->buf[i] read as a value: records the read
Load(s, i) == IF i \in DOMAIN s.buf THEN s.buf[i] ELSE 0
NoteRead(s, i) == [s EXCEPT !.rd = @ \cup {i}]

\* s->buf[dst] = s->buf[src]
CopyByte(s, dst, src) ==
    [s EXCEPT !.buf = IF dst \in DOMAIN s.buf
                        THEN [s.buf EXCEPT ![dst] = Load(s, src)]
                        ELSE s.buf,
              !.rd = @ \cup {src},
              !.wr = @ \cup {dst}]

\* s->buf[dst] = b
StoreByte(s, dst, b) ==
    [s EXCEPT !.buf = IF dst \in DOMAIN s.buf
                        THEN [s.buf EXCEPT ![dst] = b]
                        ELSE s.buf,
              !.wr = @ \cup {dst}]

claykit_min_u32_first(a, b) == a
claykit_min_u32(a, b) == IF a < b THEN a ELSE b

claykit_max_u32(a, b) == IF a > b THEN a ELSE b

\* for (i = start; i < s->len - del_len; i++) s->buf[i] = s->buf[i + del_len];
RECURSIVE DeleteSelectionLoop(_, _, _)
DeleteSelectionLoop(s, i, del_len) ==
    IF i < (s.len - del_len)
      THEN DeleteSelectionLoop(CopyByte(s, i, (i + del_len)), (i + 1), del_len)
      ELSE s

claykit_input_delete_selection_keep_anchor(s) ==
    IF s.cursor = s.select_start THEN s
    ELSE LET start == claykit_min_u32(s.cursor, s.select_start)
             end == claykit_max_u32(s.cursor, s.select_start)
             del_len == (end - start)
             t == DeleteSelectionLoop(s, start, del_len)
         IN  [t EXCEPT !.len = (t.len - del_len),
                       !.cursor = start]

claykit_input_delete_selection(s) ==
    IF s.cursor = s.select_start THEN s
    ELSE LET start == claykit_min_u32(s.cursor, s.select_start)
             end == claykit_max_u32(s.cursor, s.select_start)
             del_len == (end - start)
             t == DeleteSelectionLoop(s, start, del_len)
         IN  [t EXCEPT !.len = (t.len - del_len),
                       !.cursor = start,
                       !.select_start = start]

\* for (i = s->cursor - 1; i < s->len - 1; i++) s->buf[i] = s->buf[i + 1];
RECURSIVE BackspaceLoop(_, _)
BackspaceLoop(s, i) ==
    IF i < (s.len - 1)
      THEN BackspaceLoop(CopyByte(s, i, (i + 1)), (i + 1))
      ELSE s

\* first index overwritten by Backspace
BackspaceLoopStart_at_cursor(s) == s.cursor
BackspaceLoopStart(s) == (s.cursor - 1)

\* Backspace that reports a change even when there is nothing to delete
KeyBackspace_always_changed(s) ==
    IF s.cursor # s.select_start
      THEN [st |-> claykit_input_delete_selection(s), changed |-> TRUE]
    ELSE IF s.cursor > 0
      THEN LET t == BackspaceLoop(s, BackspaceLoopStart(s))
               c == (t.cursor - 1)
           IN  [st |-> [t EXCEPT !.len = (t.len - 1),
                                 !.cursor = c,
                                 !.select_start = c],
                changed |-> TRUE]
    ELSE [st |-> s, changed |-> TRUE]

\* Backspace that leaves the anchor where it was
KeyBackspace_keeps_anchor(s) ==
    IF s.cursor # s.select_start
      THEN [st |-> claykit_input_delete_selection(s), changed |-> TRUE]
    ELSE IF s.cursor > 0
      THEN LET t == BackspaceLoop(s, BackspaceLoopStart(s))
               c == (t.cursor - 1)
           IN  [st |-> [t EXCEPT !.len = (t.len - 1),
                                 !.cursor = c],
                changed |-> TRUE]
    ELSE [st |-> s, changed |-> FALSE]

\* Backspace that forgets changed = true after deleting the selection
KeyBackspace_selection_unreported(s) ==
    IF s.cursor # s.select_start
      THEN [st |-> claykit_input_delete_selection(s), changed |-> FALSE]
    ELSE IF s.cursor > 0
      THEN LET t == BackspaceLoop(s, BackspaceLoopStart(s))
               c == (t.cursor - 1)
           IN  [st |-> [t EXCEPT !.len = (t.len - 1),
                                 !.cursor = c,
                                 !.select_start = c],
                changed |-> TRUE]
    ELSE [st |-> s, changed |-> FALSE]

\* case CLAYKIT_KEY_BACKSPACE
KeyBackspace(s) ==
    IF s.cursor # s.select_start
      THEN [st |-> claykit_input_delete_selection(s), changed |-> TRUE]
    ELSE IF s.cursor > 0
      THEN LET t == BackspaceLoop(s, BackspaceLoopStart(s))
               c == (t.cursor - 1)
           IN  [st |-> [t EXCEPT !.len = (t.len - 1),
                                 !.cursor = c,
                                 !.select_start = c],
                changed |-> TRUE]
    ELSE [st |-> s, changed |-> FALSE]

\* for (i = s->cursor; i < s->len - 1; i++) s->buf[i] = s->buf[i + 1];
RECURSIVE DeleteLoop(_, _)
DeleteLoop(s, i) ==
    IF i < (s.len - 1)
      THEN DeleteLoop(CopyByte(s, i, (i + 1)), (i + 1))
      ELSE s

\* Delete that reports a change even when there is nothing to delete
KeyDelete_always_changed(s) ==
    IF s.cursor # s.select_start
      THEN [st |-> claykit_input_delete_selection(s), changed |-> TRUE]
    ELSE IF s.cursor < s.len
      THEN LET t == DeleteLoop(s, s.cursor)
           IN  [st |-> [t EXCEPT !.len = (t.len - 1)], changed |-> TRUE]
    ELSE [st |-> s, changed |-> TRUE]

KeyDelete_moves_cursor(s) ==
    IF s.cursor # s.select_start
      THEN [st |-> claykit_input_delete_selection(s), changed |-> TRUE]
    ELSE IF s.cursor < s.len
      THEN LET t == DeleteLoop(s, s.cursor)
               c == IF t.cursor > 0 THEN (t.cursor - 1) ELSE 0
           IN  [st |-> [t EXCEPT !.len = (t.len - 1),
                                 !.cursor = c,
                                 !.select_start = c],
                changed |-> TRUE]
    ELSE [st |-> s, changed |-> FALSE]

\* case CLAYKIT_KEY_DELETE
KeyDelete(s) ==
    IF s.cursor # s.select_start
      THEN [st |-> claykit_input_delete_selection(s), changed |-> TRUE]
    ELSE IF s.cursor < s.len
      THEN LET t == DeleteLoop(s, s.cursor)
           IN  [st |-> [t EXCEPT !.len = (t.len - 1)], changed |-> TRUE]
    ELSE [st |-> s, changed |-> FALSE]

\* while (s->cursor > 0 && s->buf[s->cursor - 1] == ' ') s->cursor--;
RECURSIVE LeftSkipSpaces(_)
LeftSkipSpaces(s) ==
    IF s.cursor > 0
      THEN LET t == NoteRead(s, (s.cursor - 1))
           IN  IF Load(s, (s.cursor - 1)) = SPACE
                 THEN LeftSkipSpaces([t EXCEPT !.cursor = (s.cursor - 1)])
                 ELSE t
      ELSE s

\* while (s->cursor > 0 && s->buf[s->cursor - 1] != ' ') s->cursor--;
RECURSIVE LeftSkipWord(_)
LeftSkipWord(s) ==
    IF s.cursor > 0
      THEN LET t == NoteRead(s, (s.cursor - 1))
           IN  IF Load(s, (s.cursor - 1)) # SPACE
                 THEN LeftSkipWord([t EXCEPT !.cursor = (s.cursor - 1)])
                 ELSE t
      ELSE s

\* while (s->cursor < s->len && s->buf[s->cursor] != ' ') s->cursor++;
RECURSIVE RightSkipWord(_)
RightSkipWord(s) ==
    IF s.cursor < s.len
      THEN LET t == NoteRead(s, s.cursor)
           IN  IF Load(s, s.cursor) # SPACE
                 THEN RightSkipWord([t EXCEPT !.cursor = (s.cursor + 1)])
                 ELSE t
      ELSE s

\* while (s->cursor < s->len && s->buf[s->cursor] == ' ') s->cursor++;
RECURSIVE RightSkipSpaces(_)
RightSkipSpaces(s) ==
    IF s.cursor < s.len
      THEN LET t == NoteRead(s, s.cursor)
           IN  IF Load(s, s.cursor) = SPACE
                 THEN RightSkipSpaces([t EXCEPT !.cursor = (s.cursor + 1)])
                 ELSE t
      ELSE s

\* the anchor follows the cursor whatever the Shift bit
ShiftRule_ignores_shift(s, shift) == [s EXCEPT !.select_start = s.cursor]

\* if (!shift) s->select_start = s->cursor;
ShiftRule(s, shift) ==
    IF shift THEN s ELSE [s EXCEPT !.select_start = s.cursor]

\* ArrowLeft that reports a change only when the cursor moved
KeyLeft_reports_motion(s, shift, ctrl) ==
    LET t == IF ctrl THEN LeftSkipWord(LeftSkipSpaces(s))
             ELSE IF s.cursor > 0 THEN [s EXCEPT !.cursor = (s.cursor - 1)]
             ELSE s
    IN  [st |-> ShiftRule(t, shift), changed |-> (t.cursor # s.cursor)]

\* ArrowLeft without Shift that deletes the selection it drops
KeyLeft_deletes_selection(s, shift, ctrl) ==
    LET d == IF shift THEN s ELSE claykit_input_delete_selection(s)
        t == IF ctrl THEN LeftSkipWord(LeftSkipSpaces(d))
             ELSE IF d.cursor > 0 THEN [d EXCEPT !.cursor = (d.cursor - 1)]
             ELSE d
    IN  [st |-> ShiftRule(t, shift), changed |-> TRUE]

\* Ctrl+ArrowLeft without the second loop: only the spaces are skipped
KeyLeft_spaces_only(s, shift, ctrl) ==
    LET t == IF ctrl THEN LeftSkipSpaces(s)
             ELSE IF s.cursor > 0 THEN [s EXCEPT !.cursor = (s.cursor - 1)]
             ELSE s
    IN  [st |-> ShiftRule(t, shift), changed |-> TRUE]

\* Ctrl+ArrowLeft with the two loops in the other order
KeyLeft_word_then_spaces(s, shift, ctrl) ==
    LET t == IF ctrl THEN LeftSkipSpaces(LeftSkipWord(s))
             ELSE IF s.cursor > 0 THEN [s EXCEPT !.cursor = (s.cursor - 1)]
             ELSE s
    IN  [st |-> ShiftRule(t, shift), changed |-> TRUE]

\* case CLAYKIT_KEY_LEFT
KeyLeft(s, shift, ctrl) ==
    LET t == IF ctrl THEN LeftSkipWord(LeftSkipSpaces(s))
             ELSE IF s.cursor > 0 THEN [s EXCEPT !.cursor = (s.cursor - 1)]
             ELSE s
    IN  [st |-> ShiftRule(t, shift), changed |-> TRUE]

\* ArrowRight without the cursor < len guard
KeyRight_unclamped(s, shift, ctrl) ==
    LET t == IF ctrl THEN RightSkipSpaces(RightSkipWord(s))
             ELSE [s EXCEPT !.cursor = (s.cursor + 1)]
    IN  [st |-> ShiftRule(t, shift), changed |-> TRUE]

\* ArrowRight that reports a change only when the cursor moved
KeyRight_reports_motion(s, shift, ctrl) ==
    LET t == IF ctrl THEN RightSkipSpaces(RightSkipWord(s))
             ELSE IF s.cursor < s.len THEN [s EXCEPT !.cursor = (s.cursor + 1)]
             ELSE s
    IN  [st |-> ShiftRule(t, shift), changed |-> (t.cursor # s.cursor)]

\* Ctrl+ArrowRight with the two loops in the other order (stops at the end
\* of the next word)
KeyRight_spaces_then_word(s, shift, ctrl) ==
    LET t == IF ctrl THEN RightSkipWord(RightSkipSpaces(s))
             ELSE IF s.cursor < s.len THEN [s EXCEPT !.cursor = (s.cursor + 1)]
             ELSE s
    IN  [st |-> ShiftRule(t, shift), changed |-> TRUE]

\* case CLAYKIT_KEY_RIGHT
KeyRight(s, shift, ctrl) ==
    LET t == IF ctrl THEN RightSkipSpaces(RightSkipWord(s))
             ELSE IF s.cursor < s.len THEN [s EXCEPT !.cursor = (s.cursor + 1)]
             ELSE s
    IN  [st |-> ShiftRule(t, shift), changed |-> TRUE]

\* Home that drops the selection whatever the Shift bit
KeyHome_no_shift_rule(s, shift) ==
    [st |-> [s EXCEPT !.cursor = 0, !.select_start = 0], changed |-> TRUE]

\* case CLAYKIT_KEY_HOME
KeyHome(s, shift) ==
    [st |-> ShiftRule([s EXCEPT !.cursor = 0], shift), changed |-> TRUE]

\* case CLAYKIT_KEY_END
KeyEnd(s, shift) ==
    [st |-> ShiftRule([s EXCEPT !.cursor = s.len], shift), changed |-> TRUE]

\* ClayKit_InputHandleKey whose Tab case falls into the End case
ClayKit_InputHandleKey_tab_as_end(s, key, mods) ==
    LET shift == ShiftOf(mods)
        ctrl == CtrlOf(mods)
    IN  CASE key = CLAYKIT_KEY_BACKSPACE -> KeyBackspace(s)
          [] key = CLAYKIT_KEY_DELETE -> KeyDelete(s)
          [] key = CLAYKIT_KEY_LEFT -> KeyLeft(s, shift, ctrl)
          [] key = CLAYKIT_KEY_RIGHT -> KeyRight(s, shift, ctrl)
          [] key = CLAYKIT_KEY_HOME -> KeyHome(s, shift)
          [] key = CLAYKIT_KEY_END -> KeyEnd(s, shift)
          [] key = CLAYKIT_KEY_TAB -> KeyEnd(s, shift)
          [] OTHER -> [st |-> s, changed |-> FALSE]

\* bool ClayKit_InputHandleKey(ClayKit_InputState *s, uint32_t key, uint32_t mods)
ClayKit_InputHandleKey(s, key, mods) ==
    LET shift == ShiftOf(mods)
        ctrl == CtrlOf(mods)
    IN  CASE key = CLAYKIT_KEY_BACKSPACE -> KeyBackspace(s)
          [] key = CLAYKIT_KEY_DELETE -> KeyDelete(s)
          [] key = CLAYKIT_KEY_LEFT -> KeyLeft(s, shift, ctrl)
          [] key = CLAYKIT_KEY_RIGHT -> KeyRight(s, shift, ctrl)
          [] key = CLAYKIT_KEY_HOME -> KeyHome(s, shift)
          [] key = CLAYKIT_KEY_END -> KeyEnd(s, shift)
          [] OTHER -> [st |-> s, changed |-> FALSE]

\* if (codepoint < 32 || codepoint > 126) return false;
RejectCodepoint_no_lower_bound(codepoint) == codepoint > PRINTABLE_MAX
RejectCodepoint(codepoint) == codepoint < PRINTABLE_MIN \/ codepoint > PRINTABLE_MAX

\* if (s->len >= s->cap - 1) return false;
AtCapacity_whole_array(s) == s.len >= s.cap
AtCapacity(s) == s.len >= (s.cap - 1)

\* for (i = s->len; i > s->cursor; i--) s->buf[i] = s->buf[i - 1];
RECURSIVE InsertLoop(_, _)
InsertLoop(s, i) ==
    IF i > s.cursor
      THEN InsertLoop(CopyByte(s, i, (i - 1)), (i - 1))
      ELSE s

\* first index written by the insertion shift
InsertLoopStart_past_len(s) == (s.len + 1)
InsertLoopStart(s) == s.len

\* the insertion proper, once the code point and the capacity are accepted
InsertAtCursor_no_shift(s, codepoint) ==
    LET u == StoreByte(s, s.cursor, CharOf(codepoint))
        c == (u.cursor + 1)
    IN  [u EXCEPT !.len = (u.len + 1), !.cursor = c, !.select_start = c]
InsertAtCursor(s, codepoint) ==
    LET t == InsertLoop(s, InsertLoopStart(s))
        u == StoreByte(t, t.cursor, CharOf(codepoint))
        c == (u.cursor + 1)
    IN  [u EXCEPT !.len = (u.len + 1), !.cursor = c, !.select_start = c]

\* ClayKit_InputHandleChar with the two checks in the wrong order:
\* selection deleted before the code point is validated
ClayKit_InputHandleChar_delete_first(s, codepoint) ==
    LET t == IF s.cursor # s.select_start
               THEN claykit_input_delete_selection(s) ELSE s
    IN  IF RejectCodepoint(codepoint) THEN [st |-> t, changed |-> FALSE]
        ELSE IF AtCapacity(t) THEN [st |-> t, changed |-> FALSE]
        ELSE [st |-> InsertAtCursor(t, codepoint), changed |-> TRUE]

\* ClayKit_InputHandleChar with the capacity checked before the selection
\* is deleted
ClayKit_InputHandleChar_capacity_first(s, codepoint) ==
    IF RejectCodepoint(codepoint) THEN [st |-> s, changed |-> FALSE]
    ELSE IF AtCapacity(s) THEN [st |-> s, changed |-> FALSE]
    ELSE LET t == IF s.cursor # s.select_start
                    THEN claykit_input_delete_selection(s) ELSE s
         IN  [st |-> InsertAtCursor(t, codepoint), changed |-> TRUE]

\* bool ClayKit_InputHandleChar(ClayKit_InputState *s, uint32_t codepoint)
ClayKit_InputHandleChar(s, codepoint) ==
    IF RejectCodepoint(codepoint) THEN [st |-> s, changed |-> FALSE]
    ELSE LET t == IF s.cursor # s.select_start
                    THEN claykit_input_delete_selection(s) ELSE s
         IN  IF AtCapacity(t) THEN [st |-> t, changed |-> FALSE]
             ELSE [st |-> InsertAtCursor(t, codepoint), changed |-> TRUE]

(***************************************************************************)
(* The context (ClayKit_Context): the widget state store and the focus.    *)
(* state_ptr is the caller-owned array state_buf[0 .. state_cap - 1] of     *)
(* ClayKit_State (id, flags, value).  A ClayKit_State* is modelled by the   *)
(* index of the slot it points to, or NULL.                                 *)
(***************************************************************************)
\* largest capacity of the state store that is explored
MaxStateCap == 3

NULL == -1

\* widget ids asked for, and element ids given the focus
Ids == 0 .. 3
FocusIds == 0 .. 2

\* what the host stores in a slot through the pointer it was given
SlotFlags == {42}
SlotValues == {5}

ClayKit_Init(state_cap) ==
    [state_ptr |-> [i \in 0 .. state_cap - 1 |-> [id |-> 0, flags |-> 0, value |-> 0]],
     state_count |-> 0,
     state_cap |-> state_cap,
     focused_id |-> 0,
     prev_focused_id |-> 0]

\* the bound of the scan of ClayKit_GetState
ScanLimit_whole_buffer(c) == c.state_cap

ScanLimit(c) == c.state_count

RECURSIVE GetStateLoop(_, _, _)
GetStateLoop(c, id, i) ==
    IF i < ScanLimit(c)
    THEN IF c.state_ptr[i].id = id THEN i ELSE GetStateLoop(c, id, i + 1)
    ELSE NULL

ClayKit_GetState(c, id) == GetStateLoop(c, id, 0)

\* the store is full: nothing is written
OutOfSlots_reuses_last(c, id) ==
    IF c.state_cap = 0 THEN [ctx |-> c, ret |-> NULL]
    ELSE [ctx |-> [c EXCEPT !.state_ptr[c.state_cap - 1] =
                                [id |-> id, flags |-> 0, value |-> 0]],
          ret |-> c.state_cap - 1]

OutOfSlots(c, id) == [ctx |-> c, ret |-> NULL]

\* the context after the call, and the pointer returned
ClayKit_GetOrCreateState(c, id) ==
    LET existing == ClayKit_GetState(c, id)
    IN  IF existing # NULL THEN [ctx |-> c, ret |-> existing]
        ELSE IF c.state_count < c.state_cap
        THEN [ctx |-> [c EXCEPT !.state_ptr[c.state_count] =
                                    [id |-> id, flags |-> 0, value |-> 0],
                                !.state_count = c.state_count + 1],
              ret |-> c.state_count]
        ELSE OutOfSlots(c, id)

ClayKit_BeginFrame(c) == [c EXCEPT !.prev_focused_id = c.focused_id]

ClayKit_SetFocus_whole_frame(c, id) ==
    [c EXCEPT !.focused_id = id, !.prev_focused_id = id]

ClayKit_SetFocus(c, id) == [c EXCEPT !.focused_id = id]

ClayKit_ClearFocus(c) == [c EXCEPT !.focused_id = 0]

ClayKit_FocusChanged(c) == c.focused_id # c.prev_focused_id

(***************************************************************************)
(* The state machine: one ClayKit_InputState owned by the host, edited by  *)
(* one call per input event.  call records the last call: its arguments,   *)
(* its return value, the fields before it, and the indices of buf it read  *)
(* and wrote.  For a Backspace without modifiers that directly follows a   *)
(* handle_char that returned true, after_char is TRUE and pre_char holds   *)
(* the fields before that handle_char; otherwise pre_char is pre.          *)
(* recover counts how far the last calls have gone through the key         *)
(* sequence End, Shift+Home, Backspace (0 .. 3).  jump_dir / jump_n count  *)
(* the Ctrl+ArrowLeft (or Ctrl+ArrowRight) calls made in a row, up to      *)
(* len + 1.                                                                *)
(***************************************************************************)
\* the fields of the ClayKit_InputState as the record an operation works on
Current ==
    [buf |-> buf, cap |-> cap, len |-> len, cursor |-> cursor,
     select_start |-> select_start, rd |-> {}, wr |-> {}]

\* the fields an operation may change, before the call
Pre == [buf |-> buf, len |-> len, cursor |-> cursor, select_start |-> select_start]

\* char buf[cap] = ""; ClayKit_InputState input = { .buf = buf, .cap = cap,
\*   .len = 0, .cursor = 0, .select_start = 0 }
Init ==
    /\ cap \in 1 .. MaxCap
    /\ buf = [i \in 0 .. cap - 1 |-> 0]
    /\ len = 0
    /\ cursor = 0
    /\ select_start = 0
    /\ ctx = ClayKit_Init(0)
    /\ call = [op |-> "init", key |-> 0, mods |-> 0, codepoint |-> 0,
               ret |-> FALSE, pre |-> Pre, rd |-> {}, wr |-> {},
               after_char |-> FALSE, pre_char |-> Pre,
               recover |-> 0, jump_dir |-> "none", jump_n |-> 0]

\* the fields after an operation whose result is r
Commit(r) ==
    /\ buf' = r.st.buf
    /\ len' = r.st.len
    /\ cursor' = r.st.cursor
    /\ select_start' = r.st.select_start
    /\ UNCHANGED <<cap, ctx>>

\* one call ClayKit_InputHandleKey(&input, key, mods)
KeyStep(key, mods) ==
    LET r == ClayKit_InputHandleKey(Current, key, mods)
        follows == /\ key = CLAYKIT_KEY_BACKSPACE /\ mods = CLAYKIT_MOD_NONE
                   /\ call.op = "char" /\ call.ret
        step == IF key = CLAYKIT_KEY_END /\ mods = CLAYKIT_MOD_NONE THEN 1
                ELSE IF call.recover = 1 /\ key = CLAYKIT_KEY_HOME
                                         /\ mods = CLAYKIT_MOD_SHIFT THEN 2
                ELSE IF call.recover = 2 /\ key = CLAYKIT_KEY_BACKSPACE
                                         /\ mods = CLAYKIT_MOD_NONE THEN 3
                ELSE 0
        dir == IF key = CLAYKIT_KEY_LEFT /\ CtrlOf(mods) THEN "left"
               ELSE IF key = CLAYKIT_KEY_RIGHT /\ CtrlOf(mods) THEN "right"
               ELSE "none"
        n == IF dir = "none" THEN 0
             ELSE IF call.jump_dir # dir THEN 1
             ELSE IF call.jump_n + 1 > len + 1 THEN len + 1
             ELSE call.jump_n + 1
    IN  /\ Commit(r)
        /\ call' = [op |-> "key", key |-> key, mods |-> mods, codepoint |-> 0,
                    ret |-> r.changed, pre |-> Pre,
                    rd |-> r.st.rd, wr |-> r.st.wr,
                    after_char |-> follows,
                    pre_char |-> IF follows THEN call.pre ELSE Pre,
                    recover |-> step, jump_dir |-> dir, jump_n |-> n]

HandleKey == \E key \in Keys, mods \in Mods : KeyStep(key, mods)

HandleChar ==
    \E codepoint \in Codepoints :
        LET r == ClayKit_InputHandleChar(Current, codepoint)
        IN  /\ Commit(r)
            /\ call' = [op |-> "char", key |-> 0, mods |-> 0, codepoint |-> codepoint,
                        ret |-> r.changed, pre |-> Pre,
                        rd |-> r.st.rd, wr |-> r.st.wr,
                        after_char |-> FALSE, pre_char |-> Pre,
                        recover |-> 0, jump_dir |-> "none", jump_n |-> 0]

Next == HandleKey \/ HandleChar

Spec == Init /\ [][Next]_vars

(***************************************************************************)
(* Word navigation on longer texts: the host has typed a text of up to     *)
(* MaxText bytes made of spaces and '~', or holds the buffer of the tests  *)
(* input_ctrl_left_word / input_ctrl_right_word, and presses only the      *)
(* motion keys, under every modifier mask.                                 *)
(***************************************************************************)
\* longest typed text explored for word navigation
MaxText == 5

\* "Hello World Test"
HelloWorldTest ==
    <<72, 101, 108, 108, 111, 32, 87, 111, 114, 108, 100, 32, 84, 101, 115, 116>>

\* char buf[n] = text: the text followed by zero bytes
BufOf(text, n) ==
    [i \in 0 .. n - 1 |-> IF i < Len(text) THEN text[i + 1] ELSE 0]

\* the texts of exactly n bytes made of ' ' and '~'
TextsOfLen(n) == [1 .. n -> {SPACE, PRINTABLE_MAX}]

InitWords ==
    /\ \/ \E n \in 0 .. MaxText : \E text \in TextsOfLen(n) :
             /\ cap = MaxText + 1
             /\ buf = BufOf(text, cap)
             /\ len = n
             /\ cursor = n
       \/ /\ cap = 32
          /\ buf = BufOf(HelloWorldTest, cap)
          /\ len = 16
          /\ cursor \in {0, 16}
    /\ select_start = cursor
    /\ ctx = ClayKit_Init(0)
    /\ call = [op |-> "init", key |-> 0, mods |-> 0, codepoint |-> 0,
               ret |-> FALSE, pre |-> Pre, rd |-> {}, wr |-> {},
               after_char |-> FALSE, pre_char |-> Pre,
               recover |-> 0, jump_dir |-> "none", jump_n |-> 0]

MotionKeys == {CLAYKIT_KEY_LEFT, CLAYKIT_KEY_RIGHT, CLAYKIT_KEY_HOME, CLAYKIT_KEY_END}

HandleMotionKey == \E key \in MotionKeys, mods \in Mods : KeyStep(key, mods)

NextWords == HandleMotionKey

SpecWords == InitWords /\ [][NextWords]_vars

(***************************************************************************)
(* ClayKit_InputGetCursorFromX.  The measurer is the callback installed in *)
(* ctx->measure_text: installed tells whether the pointer is non-NULL, and *)
(* w[i] is the width it returns for the prefix of i bytes of the text.     *)
(* Widths and the offset x are whole pixels, so every float of the source  *)
(* is exact; x < (prev_width + width) / 2.0f is evaluated as               *)
(* 2 * x < prev_width + width.                                             *)
(***************************************************************************)
\* longest text handed to ClayKit_InputGetCursorFromX on its own
MaxLocLen == 3
\* largest capacity explored when clicks are interleaved with editing
MaxClickCap == 3

\* widths a measurer may return (negative and non-monotonic ones included)
Widths == {-1, 0, 1, 3}
\* horizontal offsets of a click, relative to the left edge of the text
Offsets == -1 .. 5
\* the smaller sets used when clicks are interleaved with editing
ClickWidths == {-1, 0, 2}
ClickOffsets == {-1, 0, 1, 2, 3}

\* the measurers for a text of n bytes whose widths are drawn from W
Measurers(n, W) ==
    {[installed |-> FALSE, w |-> <<>>]}
        \cup {[installed |-> TRUE, w |-> f] : f \in [1 .. n -> W]}

\* float ClayKit_MeasureTextWidth(ctx, text, length, font_id, font_size)
ClayKit_MeasureTextWidth(m, length) ==
    IF ~m.installed \/ length = 0 THEN 0 ELSE m.w[length]

\* the click is compared with the width itself instead of the midpoint
LeftOfMid_of_width(x, prev_width, width) == x < width
\* float mid = (prev_width + width) / 2.0f; if (x_offset < mid)
LeftOfMid(x, prev_width, width) == 2 * x < prev_width + width

\* the early return taken only for negative offsets
LocateEarlyReturn_negative_only(m, length, x) ==
    ~m.installed \/ length = 0 \/ x < 0
\* if (ctx->measure_text == NULL || length == 0 || x_offset <= 0)
LocateEarlyReturn(m, length, x) ==
    ~m.installed \/ length = 0 \/ x <= 0

\* the loop index, length + 1 once the loop is over, returned in place of
\* length
LocateAfterLoop_loop_index(length) == length + 1
\* return length;
LocateAfterLoop(length) == length

\* for (i = 1; i <= length; i++) { width = ...; mid = ...;
\*     if (x_offset < mid) return i - 1; prev_width = width; }
RECURSIVE LocateLoop(_, _, _, _, _)
LocateLoop(m, length, x, i, prev_width) ==
    IF i <= length
      THEN LET width == ClayKit_MeasureTextWidth(m, i)
           IN  IF LeftOfMid(x, prev_width, width)
                 THEN i - 1
                 ELSE LocateLoop(m, length, x, i + 1, width)
      ELSE LocateAfterLoop(length)

\* uint32_t ClayKit_InputGetCursorFromX(ctx, text, length, font_id, font_size, x_offset)
ClayKit_InputGetCursorFromX(m, length, x) ==
    IF LocateEarlyReturn(m, length, x) THEN 0
    ELSE LocateLoop(m, length, x, 1, 0)

\* the record of a call of ClayKit_InputGetCursorFromX with measurer m and
\* offset x that returned result
LocateRecord(m, x, result) ==
    [op |-> "locate", key |-> 0, mods |-> 0, codepoint |-> 0,
     ret |-> FALSE, pre |-> Pre, rd |-> {}, wr |-> {},
     after_char |-> FALSE, pre_char |-> Pre,
     recover |-> 0, jump_dir |-> "none", jump_n |-> 0,
     installed |-> m.installed, w |-> m.w, x |-> x, result |-> result]

\* a text of up to MaxLocLen bytes is in the buffer
InitLocate ==
    /\ cap = MaxLocLen + 1
    /\ len \in 0 .. MaxLocLen
    /\ buf = [i \in 0 .. cap - 1 |-> IF i < len THEN PRINTABLE_MAX ELSE 0]
    /\ cursor = 0
    /\ select_start = 0
    /\ ctx = ClayKit_Init(0)
    /\ call = [op |-> "init", key |-> 0, mods |-> 0, codepoint |-> 0,
               ret |-> FALSE, pre |-> Pre, rd |-> {}, wr |-> {},
               after_char |-> FALSE, pre_char |-> Pre,
               recover |-> 0, jump_dir |-> "none", jump_n |-> 0]

\* one call ClayKit_InputGetCursorFromX(&ctx, buf, len, font_id, font_size, x)
Locate ==
    \E m \in Measurers(len, Widths), x \in Offsets :
        /\ call' = LocateRecord(m, x, ClayKit_InputGetCursorFromX(m, len, x))
        /\ UNCHANGED <<cap, buf, len, cursor, select_start, ctx>>

NextLocate == Locate

SpecLocate == InitLocate /\ [][NextLocate]_vars

\* the host's handling of a click (examples/c-raylib/main.c):
\*   new_cursor = ClayKit_InputGetCursorFromX(&ctx, input_state.buf,
\*                                            input_state.len, ..., local_x);
\*   input_state.cursor = new_cursor; input_state.select_start = new_cursor;
Click ==
    \E m \in Measurers(len, ClickWidths), x \in ClickOffsets :
        LET new_cursor == ClayKit_InputGetCursorFromX(m, len, x)
        IN  /\ cursor' = new_cursor
            /\ select_start' = new_cursor
            /\ call' = [op |-> "click", key |-> 0, mods |-> 0, codepoint |-> 0,
                        ret |-> FALSE, pre |-> Pre, rd |-> {}, wr |-> {},
                        after_char |-> FALSE, pre_char |-> Pre,
                        recover |-> 0, jump_dir |-> "none", jump_n |-> 0,
                        result |-> new_cursor]
            /\ UNCHANGED <<cap, buf, len, ctx>>

InitClick ==
    /\ cap \in 1 .. MaxClickCap
    /\ buf = [i \in 0 .. cap - 1 |-> 0]
    /\ len = 0
    /\ cursor = 0
    /\ select_start = 0
    /\ ctx = ClayKit_Init(0)
    /\ call = [op |-> "init", key |-> 0, mods |-> 0, codepoint |-> 0,
               ret |-> FALSE, pre |-> Pre, rd |-> {}, wr |-> {},
               after_char |-> FALSE, pre_char |-> Pre,
               recover |-> 0, jump_dir |-> "none", jump_n |-> 0]

NextClick == HandleKey \/ HandleChar \/ Click

SpecClick == InitClick /\ [][NextClick]_vars

(***************************************************************************)
(* The context's state machine: the host initialises a context over a      *)
(* state buffer of state_cap slots, then looks widget states up, creates   *)
(* them, writes flags and value through the pointers it was given, and     *)
(* drives the focus frame by frame.  call records the last call: its id    *)
(* argument, its return value (a slot, NULL, or a boolean) and the context *)
(* before it, and three histories:                                         *)
(*   created      the pairs <<id, slot>> of every non-NULL return of       *)
(*                ClayKit_GetOrCreateState so far                          *)
(*   focus_now    the id of the last ClayKit_SetFocus, 0 after             *)
(*                ClayKit_ClearFocus or ClayKit_Init                       *)
(*   frame_focus  focus_now at the last ClayKit_BeginFrame (at             *)
(*                ClayKit_Init if there was none)                          *)
(* The text input is not touched.                                          *)
(***************************************************************************)
CtxRecord(op, id, ret, created, focus_now, frame_focus) ==
    [op |-> op, id |-> id, ret |-> ret, pre |-> ctx,
     created |-> created, focus_now |-> focus_now, frame_focus |-> frame_focus]

InputUntouched == UNCHANGED <<cap, buf, len, cursor, select_start>>

\* ClayKit_State state_buf[N]; ClayKit_Init(&ctx, &theme, state_buf, N)
InitCtx ==
    /\ cap = 1
    /\ buf = [i \in 0 .. cap - 1 |-> 0]
    /\ len = 0
    /\ cursor = 0
    /\ select_start = 0
    /\ \E state_cap \in 0 .. MaxStateCap : ctx = ClayKit_Init(state_cap)
    /\ call = [op |-> "init", id |-> 0, ret |-> NULL, pre |-> ctx,
               created |-> {}, focus_now |-> 0, frame_focus |-> 0]

GetState ==
    \E id \in Ids :
        /\ call' = CtxRecord("get", id, ClayKit_GetState(ctx, id),
                             call.created, call.focus_now, call.frame_focus)
        /\ UNCHANGED ctx
        /\ InputUntouched

GetOrCreateState ==
    \E id \in Ids :
        LET r == ClayKit_GetOrCreateState(ctx, id)
        IN  /\ ctx' = r.ctx
            /\ call' = CtxRecord("get_or_create", id, r.ret,
                                 IF r.ret # NULL
                                 THEN call.created \cup {<<id, r.ret>>}
                                 ELSE call.created,
                                 call.focus_now, call.frame_focus)
            /\ InputUntouched

\* s->flags = f; s->value = v; for a pointer s the host was given
SlotWrite ==
    \E p \in call.created, f \in SlotFlags, v \in SlotValues :
        /\ ctx' = [ctx EXCEPT !.state_ptr[p[2]].flags = f,
                              !.state_ptr[p[2]].value = v]
        /\ call' = CtxRecord("write", p[1], p[2],
                             call.created, call.focus_now, call.frame_focus)
        /\ InputUntouched

BeginFrame ==
    /\ ctx' = ClayKit_BeginFrame(ctx)
    /\ call' = CtxRecord("begin_frame", 0, NULL,
                         call.created, call.focus_now, call.focus_now)
    /\ InputUntouched

SetFocus ==
    \E id \in FocusIds :
        /\ ctx' = ClayKit_SetFocus(ctx, id)
        /\ call' = CtxRecord("set_focus", id, NULL,
                             call.created, id, call.frame_focus)
        /\ InputUntouched

ClearFocus ==
    /\ ctx' = ClayKit_ClearFocus(ctx)
    /\ call' = CtxRecord("clear_focus", 0, NULL,
                         call.created, 0, call.frame_focus)
    /\ InputUntouched

FocusChanged ==
    /\ call' = CtxRecord("focus_changed", 0, ClayKit_FocusChanged(ctx),
                         call.created, call.focus_now, call.frame_focus)
    /\ UNCHANGED ctx
    /\ InputUntouched

NextCtx ==
    \/ GetState
    \/ GetOrCreateState
    \/ SlotWrite
    \/ BeginFrame
    \/ SetFocus
    \/ ClearFocus
    \/ FocusChanged

SpecCtx == InitCtx /\ [][NextCtx]_vars

(***************************************************************************)
(* Vocabulary of the properties                                            *)
(***************************************************************************)
\* the bytes b[from .. to) as a sequence
Str(b, from, to) == [k \in 1 .. (to - from) |-> b[from + k - 1]]

\* the valid text of the buffer after / before the last call
Text == Str(buf, 0, len)
PreText == Str(call.pre.buf, 0, call.pre.len)

Printable(c) == c >= 32 /\ c <= 126

\* the selected range [SelStart, SelEnd) before the last call
SelStart == IF call.pre.cursor < call.pre.select_start
              THEN call.pre.cursor ELSE call.pre.select_start
SelEnd == IF call.pre.cursor < call.pre.select_start
            THEN call.pre.select_start ELSE call.pre.cursor
HadSelection == call.pre.cursor # call.pre.select_start

\* the last call changed none of buf, len, cursor, select_start
NothingChanged ==
    /\ buf = call.pre.buf
    /\ len = call.pre.len
    /\ cursor = call.pre.cursor
    /\ select_start = call.pre.select_start

CharCall == call.op = "char"
KeyCall(k) == call.op = "key" /\ call.key = k

(***************************************************************************)
(* C1  Index invariant: after any sequence of handle_key calls (any key,   *)
(* any modifier mask) and handle_char calls (any code point) on a buffer   *)
(* with cap >= 1, cursor <= len <= cap - 1 and select_start <= len.        *)
(***************************************************************************)
IndexInvariant ==
    /\ cap >= 1
    /\ 0 <= cursor /\ cursor <= len
    /\ len <= cap - 1
    /\ 0 <= select_start /\ select_start <= len

\* a full buffer (len = cap - 1 >= 2) whose selection has just been collapsed
\* by a key
IndexInvariant_witness ==
    /\ call.op = "key" /\ call.ret
    /\ HadSelection
    /\ call.pre.len = cap - 1 /\ call.pre.len >= 2
    /\ call.pre.select_start = call.pre.len
    /\ len < call.pre.len

(***************************************************************************)
(* C2  Content invariant: every byte of buf[0 .. len) is printable ASCII   *)
(* (0x20 .. 0x7E) after any sequence of calls, whatever 32-bit code points *)
(* are typed, including those above 0x7E whose low byte is printable.      *)
(***************************************************************************)
ContentInvariant == \A i \in 0 .. len - 1 : Printable(buf[i])

\* the code point 0x17E (low byte '~') was typed into a non-full buffer that
\* already holds text
ContentInvariant_witness ==
    /\ CharCall /\ call.codepoint = 382
    /\ len > 0 /\ len < cap - 1

(***************************************************************************)
(* C3  Reserved byte / memory safety: no call writes buf at an index       *)
(* >= cap - 1 (buf[cap - 1] keeps the value the caller gave it), and every *)
(* index read or written is inside the array, 0 <= index < cap.            *)
(***************************************************************************)
ReservedByte ==
    /\ \A i \in call.wr : 0 <= i /\ i < cap - 1
    /\ \A i \in call.rd : 0 <= i /\ i < cap
    /\ buf[cap - 1] = 0

\* an insertion at the front of a buffer with one free slot: the shift
\* writes the last index it may, cap - 2
ReservedByte_witness ==
    /\ CharCall /\ call.ret
    /\ call.pre.len = cap - 2 /\ call.pre.cursor = 0 /\ call.pre.len >= 1
    /\ (cap - 2) \in call.wr

(***************************************************************************)
(* C4  handle_char with a code point outside [0x20, 0x7E] returns false    *)
(* and changes nothing: buf, len, cursor and select_start are as before,   *)
(* even when a selection is active.                                        *)
(***************************************************************************)
RejectNonPrintable ==
    (CharCall /\ ~Printable(call.codepoint))
        => (call.ret = FALSE /\ NothingChanged /\ call.wr = {})

\* DEL typed while a selection is active
RejectNonPrintable_witness ==
    /\ CharCall /\ call.codepoint = 127
    /\ HadSelection

(***************************************************************************)
(* C5  handle_char with a printable code point c, no selection and         *)
(* len < cap - 1 returns true and gives text = old[0..cursor) + c +        *)
(* old[cursor..len), len + 1, cursor + 1, select_start = new cursor.       *)
(***************************************************************************)
InsertNoSelection ==
    (CharCall /\ Printable(call.codepoint) /\ ~HadSelection
              /\ call.pre.len < cap - 1)
        => /\ call.ret = TRUE
           /\ Text = Str(call.pre.buf, 0, call.pre.cursor)
                       \o <<call.codepoint>>
                       \o Str(call.pre.buf, call.pre.cursor, call.pre.len)
           /\ len = call.pre.len + 1
           /\ cursor = call.pre.cursor + 1
           /\ select_start = cursor

\* a space inserted between two '~'
InsertNoSelection_witness ==
    /\ CharCall /\ call.codepoint = 32 /\ ~HadSelection
    /\ call.pre.cursor = 1 /\ call.pre.len = 2
    /\ PreText = <<126, 126>>
    /\ Text = <<126, 32, 126>>

(***************************************************************************)
(* C6  Typing over a selection replaces it: handle_char with a printable   *)
(* c and an active selection [start, end), in either direction and for any *)
(* len <= cap - 1, returns true and gives text = old[0..start) + c +       *)
(* old[end..len), len - (end - start) + 1, cursor = select_start =         *)
(* start + 1.                                                              *)
(***************************************************************************)
TypeOverSelection ==
    (CharCall /\ Printable(call.codepoint) /\ HadSelection)
        => /\ call.ret = TRUE
           /\ Text = Str(call.pre.buf, 0, SelStart)
                       \o <<call.codepoint>>
                       \o Str(call.pre.buf, SelEnd, call.pre.len)
           /\ len = call.pre.len - (SelEnd - SelStart) + 1
           /\ cursor = SelStart + 1
           /\ select_start = SelStart + 1

\* a full buffer, a backward selection (cursor before the anchor) with text
\* on both sides of it
TypeOverSelection_witness ==
    /\ CharCall /\ Printable(call.codepoint)
    /\ call.pre.len = cap - 1
    /\ call.pre.cursor < call.pre.select_start
    /\ call.pre.cursor > 0 /\ call.pre.select_start < call.pre.len
    /\ call.ret

(***************************************************************************)
(* C7  as claimed: handle_char with a printable code point on a buffer     *)
(* whose length equals cap - 1 returns false and leaves len unchanged.     *)
(***************************************************************************)
FullBufferRejects_claimed ==
    (CharCall /\ Printable(call.codepoint) /\ call.pre.len = cap - 1)
        => (call.ret = FALSE /\ len = call.pre.len)

(***************************************************************************)
(* C7  amended: handle_char with a printable code point on a buffer whose  *)
(* length equals cap - 1 and which has no active selection returns false   *)
(* and leaves len unchanged.                                               *)
(***************************************************************************)
FullBufferRejects ==
    (CharCall /\ Printable(call.codepoint) /\ call.pre.len = cap - 1
              /\ ~HadSelection)
        => (call.ret = FALSE /\ len = call.pre.len)

\* '~' typed in the middle of a full buffer of at least two bytes
FullBufferRejects_witness ==
    /\ CharCall /\ call.codepoint = 126
    /\ call.pre.len = cap - 1 /\ call.pre.len >= 2
    /\ ~HadSelection /\ call.pre.cursor = 1
    /\ call.ret = FALSE

(***************************************************************************)
(* C8  Selection collapse: Backspace or Delete with an active selection    *)
(* [start, end), either end being the cursor, returns true and gives       *)
(* text = old[0..start) + old[end..len), len - (end - start), cursor =     *)
(* select_start = start; Backspace and Delete give the identical result.   *)
(***************************************************************************)
SelectionCollapse ==
    ((KeyCall(CLAYKIT_KEY_BACKSPACE) \/ KeyCall(CLAYKIT_KEY_DELETE)) /\ HadSelection)
        => /\ call.ret = TRUE
           /\ Text = Str(call.pre.buf, 0, SelStart)
                       \o Str(call.pre.buf, SelEnd, call.pre.len)
           /\ len = call.pre.len - (SelEnd - SelStart)
           /\ cursor = SelStart
           /\ select_start = SelStart
           /\ LET s == [buf |-> call.pre.buf, cap |-> cap, len |-> call.pre.len,
                        cursor |-> call.pre.cursor,
                        select_start |-> call.pre.select_start,
                        rd |-> {}, wr |-> {}]
                  other == IF call.key = CLAYKIT_KEY_BACKSPACE
                             THEN CLAYKIT_KEY_DELETE ELSE CLAYKIT_KEY_BACKSPACE
                  r == ClayKit_InputHandleKey(s, other, call.mods)
              IN  /\ r.changed = call.ret
                  /\ r.st.buf = buf /\ r.st.len = len
                  /\ r.st.cursor = cursor /\ r.st.select_start = select_start

\* Delete of a forward selection (anchor before the cursor) with text on
\* both sides of it
SelectionCollapse_witness ==
    /\ KeyCall(CLAYKIT_KEY_DELETE)
    /\ call.pre.select_start < call.pre.cursor
    /\ call.pre.select_start > 0 /\ call.pre.cursor < call.pre.len
    /\ len = call.pre.len - 1

(***************************************************************************)
(* C9  Backspace with no selection and cursor > 0 returns true and removes *)
(* exactly the byte at cursor - 1: text = old[0..cursor-1) +               *)
(* old[cursor..len), len and cursor decrease by one, select_start = new    *)
(* cursor.                                                                 *)
(***************************************************************************)
BackspaceNoSelection ==
    (KeyCall(CLAYKIT_KEY_BACKSPACE) /\ ~HadSelection /\ call.pre.cursor > 0)
        => /\ call.ret = TRUE
           /\ Text = Str(call.pre.buf, 0, call.pre.cursor - 1)
                       \o Str(call.pre.buf, call.pre.cursor, call.pre.len)
           /\ len = call.pre.len - 1
           /\ cursor = call.pre.cursor - 1
           /\ select_start = cursor

\* Backspace in the middle of "~ ~": the space goes
BackspaceNoSelection_witness ==
    /\ KeyCall(CLAYKIT_KEY_BACKSPACE) /\ ~HadSelection
    /\ PreText = <<126, 32, 126>> /\ call.pre.cursor = 2
    /\ Text = <<126, 126>> /\ cursor = 1

(***************************************************************************)
(* C10  Delete with no selection and cursor < len returns true and removes *)
(* exactly the byte at cursor: text = old[0..cursor) + old[cursor+1..len), *)
(* len decreases by one, cursor and select_start stay as they were         *)
(* (equal).                                                                *)
(***************************************************************************)
DeleteNoSelection ==
    (KeyCall(CLAYKIT_KEY_DELETE) /\ ~HadSelection /\ call.pre.cursor < call.pre.len)
        => /\ call.ret = TRUE
           /\ Text = Str(call.pre.buf, 0, call.pre.cursor)
                       \o Str(call.pre.buf, call.pre.cursor + 1, call.pre.len)
           /\ len = call.pre.len - 1
           /\ cursor = call.pre.cursor
           /\ select_start = call.pre.select_start
           /\ select_start = cursor

\* Delete in the middle of "~ ~": the space goes, the cursor stays at 1
DeleteNoSelection_witness ==
    /\ KeyCall(CLAYKIT_KEY_DELETE) /\ ~HadSelection
    /\ PreText = <<126, 32, 126>> /\ call.pre.cursor = 1
    /\ Text = <<126, 126>> /\ cursor = 1

\* the last call was one of the four motion keys
MotionCall ==
    call.op = "key" /\ call.key \in {CLAYKIT_KEY_LEFT, CLAYKIT_KEY_RIGHT,
                                     CLAYKIT_KEY_HOME, CLAYKIT_KEY_END}
\* the masks with the Shift bit (1) / the Ctrl bit (2) set
ShiftMasks == {1, 3, 5, 7}
CtrlMasks == {2, 3, 6, 7}

(***************************************************************************)
(* C11  Backspace with cursor == 0 and no selection (select_start == 0)    *)
(* returns false and changes nothing, for any modifier mask.               *)
(***************************************************************************)
BackspaceAtStart ==
    (KeyCall(CLAYKIT_KEY_BACKSPACE) /\ call.pre.cursor = 0
                                    /\ call.pre.select_start = 0)
        => (call.ret = FALSE /\ NothingChanged /\ call.wr = {})

\* Backspace with all three modifiers at the start of a non-empty text
BackspaceAtStart_witness ==
    /\ KeyCall(CLAYKIT_KEY_BACKSPACE) /\ call.mods = 7
    /\ call.pre.cursor = 0 /\ call.pre.select_start = 0
    /\ call.pre.len >= 2

(***************************************************************************)
(* C12  Delete with cursor == len and no selection (select_start == len)   *)
(* returns false and changes nothing, for any modifier mask.               *)
(***************************************************************************)
DeleteAtEnd ==
    (KeyCall(CLAYKIT_KEY_DELETE) /\ call.pre.cursor = call.pre.len
                                 /\ call.pre.select_start = call.pre.len)
        => (call.ret = FALSE /\ NothingChanged /\ call.wr = {})

\* Ctrl+Shift+Delete at the end of a non-empty text
DeleteAtEnd_witness ==
    /\ KeyCall(CLAYKIT_KEY_DELETE) /\ call.mods = 3
    /\ call.pre.cursor = call.pre.len /\ call.pre.select_start = call.pre.len
    /\ call.pre.len >= 2

(***************************************************************************)
(* C13  Shift rule, the same for ArrowLeft, ArrowRight, Home and End, with *)
(* or without Ctrl: without Shift, select_start equals the new cursor      *)
(* after the call and no text is deleted; with Shift, select_start is      *)
(* exactly what it was before the call.                                    *)
(***************************************************************************)
ShiftRuleHolds ==
    MotionCall
        => /\ (call.mods \notin ShiftMasks) => select_start = cursor
           /\ (call.mods \in ShiftMasks) => select_start = call.pre.select_start
           /\ buf = call.pre.buf
           /\ len = call.pre.len

\* Shift+ArrowLeft shrinking a selection anchored at 0: the cursor moves
\* from 2 to 1 and the anchor stays at 0
ShiftRuleHolds_witness ==
    /\ KeyCall(CLAYKIT_KEY_LEFT) /\ call.mods = 1
    /\ call.pre.select_start = 0 /\ call.pre.cursor = 2
    /\ cursor = 1 /\ select_start = 0

(***************************************************************************)
(* C14  Plain cursor motion (Ctrl not set): ArrowLeft sets cursor to       *)
(* max(cursor - 1, 0), ArrowRight to min(cursor + 1, len), Home to 0 and   *)
(* End to len, whether or not a selection was active before the call.      *)
(***************************************************************************)
PlainMotion ==
    (MotionCall /\ call.mods \notin CtrlMasks)
        => cursor = CASE call.key = CLAYKIT_KEY_LEFT ->
                           IF call.pre.cursor - 1 > 0 THEN call.pre.cursor - 1 ELSE 0
                      [] call.key = CLAYKIT_KEY_RIGHT ->
                           IF call.pre.cursor + 1 < call.pre.len
                             THEN call.pre.cursor + 1 ELSE call.pre.len
                      [] call.key = CLAYKIT_KEY_HOME -> 0
                      [] call.key = CLAYKIT_KEY_END -> call.pre.len

\* ArrowRight at the end of the text with a selection active: clamped at len
PlainMotion_witness ==
    /\ KeyCall(CLAYKIT_KEY_RIGHT) /\ call.mods = 0
    /\ call.pre.len >= 2 /\ call.pre.cursor = call.pre.len
    /\ call.pre.select_start < call.pre.cursor
    /\ cursor = call.pre.len

(***************************************************************************)
(* C17  handle_key with ArrowLeft, ArrowRight, Home or End returns true    *)
(* for every buffer state and modifier mask, also when the cursor is       *)
(* already at 0 or at len and no field is modified.                        *)
(***************************************************************************)
MotionAlwaysReported == MotionCall => call.ret = TRUE

\* ArrowLeft at cursor 0 without selection: nothing changed, true returned
MotionAlwaysReported_witness ==
    /\ KeyCall(CLAYKIT_KEY_LEFT) /\ call.mods = 0
    /\ call.pre.cursor = 0 /\ call.pre.select_start = 0
    /\ NothingChanged /\ call.ret

(***************************************************************************)
(* C18  as claimed: an arrow key pressed when the cursor is already at an  *)
(* extreme (ArrowLeft with cursor == 0, ArrowRight with cursor == len) is  *)
(* a no-op that returns false.                                             *)
(***************************************************************************)
ArrowAtExtreme_claimed ==
    (\/ KeyCall(CLAYKIT_KEY_LEFT) /\ call.pre.cursor = 0
     \/ KeyCall(CLAYKIT_KEY_RIGHT) /\ call.pre.cursor = call.pre.len)
        => (call.ret = FALSE /\ NothingChanged)

(***************************************************************************)
(* C18  amended: an arrow key pressed when the cursor is already at an     *)
(* extreme leaves buf, len and cursor unchanged, returns true, and leaves  *)
(* select_start unchanged with Shift and sets it to cursor without Shift.  *)
(***************************************************************************)
ArrowAtExtreme ==
    (\/ KeyCall(CLAYKIT_KEY_LEFT) /\ call.pre.cursor = 0
     \/ KeyCall(CLAYKIT_KEY_RIGHT) /\ call.pre.cursor = call.pre.len)
        => /\ call.ret = TRUE
           /\ buf = call.pre.buf
           /\ len = call.pre.len
           /\ cursor = call.pre.cursor
           /\ select_start = IF call.mods \in ShiftMasks
                               THEN call.pre.select_start ELSE call.pre.cursor

\* Ctrl+ArrowRight at the end of the text with a selection active: the
\* cursor stays, the selection is dropped, true is returned
ArrowAtExtreme_witness ==
    /\ KeyCall(CLAYKIT_KEY_RIGHT) /\ call.mods = 2
    /\ call.pre.len >= 1 /\ call.pre.cursor = call.pre.len
    /\ call.pre.select_start = 0
    /\ select_start = cursor /\ call.ret

(***************************************************************************)
(* C19  Whenever handle_key or handle_char returns false, the buffer is    *)
(* unchanged: buf[0 .. len), len, cursor and select_start are as before    *)
(* the call.                                                               *)
(***************************************************************************)
FalseMeansUnchanged ==
    (call.op \in {"key", "char"} /\ call.ret = FALSE)
        => /\ Text = PreText
           /\ len = call.pre.len
           /\ cursor = call.pre.cursor
           /\ select_start = call.pre.select_start

\* a space typed at the end of a full buffer: refused, nothing changes
FalseMeansUnchanged_witness ==
    /\ CharCall /\ call.codepoint = 32 /\ call.ret = FALSE
    /\ call.pre.len = cap - 1 /\ call.pre.len >= 2
    /\ call.pre.cursor = call.pre.len /\ ~HadSelection

(***************************************************************************)
(* C20  as claimed: for every valid buffer state and printable code point  *)
(* for which handle_char returns true, a following handle_key(Backspace,   *)
(* no modifiers) restores the prior (buf[0 .. len), cursor, select_start). *)
(***************************************************************************)
RoundTrip_claimed ==
    call.after_char
        => /\ Text = Str(call.pre_char.buf, 0, call.pre_char.len)
           /\ cursor = call.pre_char.cursor
           /\ select_start = call.pre_char.select_start

(***************************************************************************)
(* C20  amended: for every valid buffer state with no active selection     *)
(* and printable code point for which handle_char returns true, a          *)
(* following handle_key(Backspace, no modifiers) restores the prior        *)
(* (buf[0 .. len), cursor, select_start).                                  *)
(***************************************************************************)
RoundTrip ==
    (call.after_char /\ call.pre_char.cursor = call.pre_char.select_start)
        => /\ Text = Str(call.pre_char.buf, 0, call.pre_char.len)
           /\ cursor = call.pre_char.cursor
           /\ select_start = call.pre_char.select_start

\* a space typed between two '~' and removed again by Backspace
RoundTrip_witness ==
    /\ call.after_char
    /\ call.pre_char.cursor = 1 /\ call.pre_char.select_start = 1
    /\ Str(call.pre_char.buf, 0, call.pre_char.len) = <<126, 126>>
    /\ PreText = <<126, 32, 126>>
    /\ Text = <<126, 126>>

\* the largest / smallest element of a non-empty set of numbers
MaxOf(S) == CHOOSE x \in S : \A y \in S : y <= x
MinOf(S) == CHOOSE x \in S : \A y \in S : x <= y

\* start of the previous word: a is the largest index <= c with a = 0 or
\* b[a-1] # ' ', and the target the largest index <= a with p = 0 or
\* b[p-1] = ' '
PrevWordStart(b, c) ==
    LET a == MaxOf({i \in 0 .. c : i = 0 \/ b[i - 1] # 32})
    IN  MaxOf({p \in 0 .. a : p = 0 \/ b[p - 1] = 32})

\* q is the smallest index >= c with q = n or b[q] = ' ', and the target
\* the smallest index >= q with p = n or b[p] # ' '
NextWordStart(b, c, n) ==
    LET q == MinOf({i \in c .. n : i = n \/ b[i] = 32})
    IN  MinOf({p \in q .. n : p = n \/ b[p] # 32})

(***************************************************************************)
(* C15  Ctrl+ArrowLeft moves the cursor to the start of the previous word: *)
(* with c the old cursor, a the largest index <= c with a == 0 or          *)
(* buf[a-1] != ' ', and p the largest index <= a with p == 0 or            *)
(* buf[p-1] == ' ', the new cursor is p; "Hello World Test" from 16 goes   *)
(* to 12 and from 12 to 6.  Only the byte 0x20 separates words.            *)
(***************************************************************************)
CtrlLeftWord ==
    (KeyCall(CLAYKIT_KEY_LEFT) /\ call.mods \in CtrlMasks)
        => /\ cursor = PrevWordStart(call.pre.buf, call.pre.cursor)
           /\ (PreText = HelloWorldTest /\ call.pre.cursor = 16) => cursor = 12
           /\ (PreText = HelloWorldTest /\ call.pre.cursor = 12) => cursor = 6

\* the second Ctrl+ArrowLeft of the test: "Hello World Test" from 12 to 6
CtrlLeftWord_witness ==
    /\ KeyCall(CLAYKIT_KEY_LEFT) /\ call.mods = 2
    /\ PreText = HelloWorldTest /\ call.pre.cursor = 12
    /\ cursor = 6

OtherKeysIgnored ==
    (call.op = "key" /\ call.key \notin 1 .. 6)
        => (call.ret = FALSE /\ NothingChanged /\ call.wr = {})

\* Ctrl+Shift+Tab while a selection is active
OtherKeysIgnored_witness ==
    /\ KeyCall(CLAYKIT_KEY_TAB) /\ call.mods = 3
    /\ HadSelection /\ call.pre.len >= 2
    /\ call.ret = FALSE

\* the buffer is cleared
Cleared == len = 0 /\ cursor = 0 /\ select_start = 0

\* handle_char applied to the bytes w[k], w[k+1], ... in turn; ok tells
\* whether every call returned true
RECURSIVE TypeString(_, _, _, _)
TypeString(s, w, k, ok) ==
    IF k > Len(w) THEN [st |-> s, ok |-> ok]
    ELSE LET r == ClayKit_InputHandleChar(s, w[k])
         IN  TypeString(r.st, w, k + 1, ok /\ r.changed)

(***************************************************************************)
(* C22  Recoverability: from every reachable buffer state the key sequence *)
(* End, Shift+Home, Backspace ends in the cleared state (len = 0,          *)
(* cursor = 0, select_start = 0), so the cleared state is reachable by     *)
(* handle_key calls alone; and from the cleared state every printable      *)
(* string of up to cap - 1 bytes can be typed again.                       *)
(***************************************************************************)
Recoverable ==
    /\ call.recover = 3 => Cleared
    /\ Cleared =>
         \A n \in 0 .. cap - 1 : \A w \in TextsOfLen(n) :
             LET r == TypeString(Current, w, 1, TRUE)
             IN  /\ r.ok
                 /\ r.st.len = n
                 /\ Str(r.st.buf, 0, r.st.len) = w

\* a full buffer of at least two bytes, with the cursor not at its end
\* before End was pressed, cleared by the three keys
Recoverable_witness ==
    /\ call.recover = 3
    /\ KeyCall(CLAYKIT_KEY_BACKSPACE)
    /\ call.pre.len = cap - 1 /\ call.pre.len >= 2
    /\ call.pre.cursor = 0 /\ call.pre.select_start = call.pre.len
    /\ Cleared

(***************************************************************************)
(* C28  Motion keys never edit text: handle_key with ArrowLeft,            *)
(* ArrowRight, Home or End, under any modifier mask and with or without a  *)
(* selection, leaves len and every byte of buf unchanged and writes no     *)
(* byte; only cursor and select_start may change.                          *)
(***************************************************************************)
MotionKeepsText ==
    MotionCall
        => /\ len = call.pre.len
           /\ \A i \in 0 .. cap - 1 : buf[i] = call.pre.buf[i]
           /\ call.wr = {}

\* ArrowLeft dropping a selection that covers the whole, non-empty text
MotionKeepsText_witness ==
    /\ KeyCall(CLAYKIT_KEY_LEFT) /\ call.mods = 0
    /\ call.pre.len >= 2
    /\ call.pre.cursor = call.pre.len /\ call.pre.select_start = 0
    /\ cursor = call.pre.len - 1 /\ select_start = cursor

(***************************************************************************)
(* C30  Word-jump progress: every Ctrl+ArrowLeft with cursor > 0 strictly  *)
(* decreases the cursor and every Ctrl+ArrowRight with cursor < len        *)
(* strictly increases it, never past 0 or len; so after len                *)
(* Ctrl+ArrowLeft calls in a row the cursor is 0 and after len             *)
(* Ctrl+ArrowRight calls in a row it is len.                               *)
(***************************************************************************)
WordJumpProgress ==
    /\ (KeyCall(CLAYKIT_KEY_LEFT) /\ call.mods \in CtrlMasks)
          => /\ 0 <= cursor /\ cursor <= call.pre.cursor
             /\ call.pre.cursor > 0 => cursor < call.pre.cursor
             /\ call.jump_dir = "left" /\ call.jump_n >= 1
             /\ call.jump_n >= len => cursor = 0
    /\ (KeyCall(CLAYKIT_KEY_RIGHT) /\ call.mods \in CtrlMasks)
          => /\ cursor <= len /\ call.pre.cursor <= cursor
             /\ call.pre.cursor < call.pre.len => call.pre.cursor < cursor
             /\ call.jump_dir = "right" /\ call.jump_n >= 1
             /\ call.jump_n >= len => cursor = len

\* the third Ctrl+ArrowLeft in a row on "Hello World Test": from 6 to 0
WordJumpProgress_witness ==
    /\ KeyCall(CLAYKIT_KEY_LEFT) /\ call.mods = 2
    /\ PreText = HelloWorldTest
    /\ call.jump_n = 3 /\ call.pre.cursor = 6 /\ cursor = 0

\* the last call was ClayKit_InputGetCursorFromX with a measurer installed
\* whose prefix widths are 0 = w(0) <= w(1) <= ... <= w(len)
PrefixWidth(j) == IF j = 0 THEN 0 ELSE call.w[j]
MonotoneLocate ==
    /\ call.op = "locate" /\ call.installed
    /\ \A j \in 1 .. len : PrefixWidth(j - 1) <= PrefixWidth(j)

Dist(a, b) == IF a >= b THEN a - b ELSE b - a

\* the insertion point is at least as close to x as every other one
ClosestToX ==
    /\ call.result \in 0 .. len
    /\ \A j \in 0 .. len :
         Dist(PrefixWidth(call.result), call.x) <= Dist(PrefixWidth(j), call.x)

\* the smallest i - 1 (i from 1 to len) with x < (w(i-1) + w(i)) / 2, or len
\* when no midpoint is crossed
FirstCrossing ==
    LET S == {i \in 1 .. len : 2 * call.x < PrefixWidth(i - 1) + PrefixWidth(i)}
    IN  IF S = {} THEN len ELSE MinOf(S) - 1

(***************************************************************************)
(* C23  as claimed: for every text, every measurer with non-decreasing     *)
(* prefix widths w(0) = 0 <= w(1) <= ... <= w(n) and every offset x,       *)
(* locate_cursor returns an index r with |w(r) - x| <= |w(j) - x| for all  *)
(* j in 0..n, and r is the smallest i - 1 with x < (w(i-1) + w(i)) / 2, or *)
(* n when no midpoint is crossed.                                          *)
(***************************************************************************)
LocateClosest_claimed ==
    MonotoneLocate => (ClosestToX /\ call.result = FirstCrossing)

(***************************************************************************)
(* C23  amended: under the same conditions locate_cursor returns an index  *)
(* r with |w(r) - x| <= |w(j) - x| for all j in 0..n; for x > 0, r is the  *)
(* smallest i - 1 with x < (w(i-1) + w(i)) / 2, or n when no midpoint is   *)
(* crossed, and for x <= 0, r is 0.                                        *)
(***************************************************************************)
LocateClosest ==
    MonotoneLocate
        => /\ ClosestToX
           /\ call.x > 0 => call.result = FirstCrossing
           /\ call.x <= 0 => call.result = 0

\* prefix widths 0, 1, 3 (a zero-width first glyph) and a click at x = 1:
\* two midpoints are passed and index 2, whose insertion point is at 1, is
\* returned
LocateClosest_witness ==
    /\ MonotoneLocate /\ len = 3
    /\ call.w = <<0, 1, 3>> /\ call.x = 1
    /\ call.result = 2

(***************************************************************************)
(* C24  locate_cursor returns 0 whenever x <= 0 or length == 0, whatever   *)
(* the measurer returns, and also when no measurer is installed.           *)
(***************************************************************************)
LocateZero ==
    (call.op = "locate" /\ (call.x <= 0 \/ len = 0 \/ ~call.installed))
        => call.result = 0

\* a click at x = 0 on a text whose first glyph has width 0
LocateZero_witness ==
    /\ call.op = "locate" /\ call.installed
    /\ len = 3 /\ call.x = 0
    /\ call.w = <<0, 1, 3>>
    /\ call.result = 0

(***************************************************************************)
(* C29  locate_cursor returns an index in [0, len] for every measurer      *)
(* (also with non-monotonic or negative widths) and every x, so a host     *)
(* that sets cursor = select_start = locate_cursor(...) on a click,        *)
(* interleaved with handle_key / handle_char calls, keeps cursor <= len    *)
(* and select_start <= len.                                                *)
(***************************************************************************)
ClickKeepsIndex ==
    /\ call.op = "click"
          => /\ 0 <= call.result /\ call.result <= call.pre.len
             /\ cursor = call.result /\ select_start = call.result
             /\ len = call.pre.len /\ buf = call.pre.buf
    /\ 0 <= cursor /\ cursor <= len
    /\ 0 <= select_start /\ select_start <= len
    /\ len <= cap - 1

\* a click past the last midpoint of a full two-byte text, while a
\* selection was active: cursor and anchor both land on len
ClickKeepsIndex_witness ==
    /\ call.op = "click"
    /\ call.pre.len = 2 /\ cap = 3
    /\ call.pre.cursor = 0 /\ call.pre.select_start = 1
    /\ call.result = 2 /\ cursor = 2 /\ select_start = 2

(***************************************************************************)
(* Vocabulary of the properties of the context                             *)
(***************************************************************************)
\* the slots in use
Stored == 0 .. ctx.state_count - 1
StoredBefore == 0 .. call.pre.state_count - 1

\* the slots the host was given for an id
SlotsOf(id) == {p[2] : p \in {q \in call.created : q[1] = id}}

(***************************************************************************)
(* C25  Store capacity: after ClayKit_Init with capacity N, for any        *)
(* sequence of ClayKit_GetOrCreateState calls state_count <= N always      *)
(* holds; a ClayKit_GetOrCreateState call for an id that is not stored     *)
(* when state_count = N returns NULL and leaves state_count and every      *)
(* slot (id, flags, value) unchanged.                                      *)
(***************************************************************************)
StoreCapacity ==
    /\ ctx.state_count <= ctx.state_cap
    /\ DOMAIN ctx.state_ptr = 0 .. ctx.state_cap - 1
    /\ ( /\ call.op = "get_or_create"
         /\ call.pre.state_count = call.pre.state_cap
         /\ \A i \in StoredBefore : call.pre.state_ptr[i].id # call.id )
       => /\ call.ret = NULL
          /\ ctx.state_count = call.pre.state_count
          /\ ctx.state_ptr = call.pre.state_ptr

\* a store of three slots holds three ids and a fourth id was asked for
StoreCapacity_witness ==
    /\ call.op = "get_or_create"
    /\ call.pre.state_cap = 3
    /\ call.pre.state_count = 3
    /\ \A i \in StoredBefore : call.pre.state_ptr[i].id # call.id
    /\ \E i \in StoredBefore : call.pre.state_ptr[i].flags = 42
    /\ call.ret = NULL

(***************************************************************************)
(* C26  Lookup consistency: the ids stored in slots [0, state_count) are   *)
(* pairwise distinct; ClayKit_GetOrCreateState on an id already stored     *)
(* returns the same slot with its flags and value preserved and does not   *)
(* increase state_count; ClayKit_GetState(id) returns that same slot if    *)
(* the id was successfully created and NULL otherwise, including id 0 on   *)
(* a freshly zeroed store.                                                 *)
(***************************************************************************)
LookupConsistency ==
    /\ \A i, j \in Stored : i # j => ctx.state_ptr[i].id # ctx.state_ptr[j].id
    /\ \A id \in Ids : Cardinality(SlotsOf(id)) <= 1
    /\ ( /\ call.op = "get_or_create"
         /\ \E i \in StoredBefore : call.pre.state_ptr[i].id = call.id )
       => /\ SlotsOf(call.id) = {call.ret}
          /\ call.pre.state_ptr[call.ret].id = call.id
          /\ ctx.state_ptr = call.pre.state_ptr
          /\ ctx.state_count = call.pre.state_count
    /\ call.op = "get"
       => /\ ctx = call.pre
          /\ IF SlotsOf(call.id) # {}
             THEN SlotsOf(call.id) = {call.ret}
             ELSE call.ret = NULL

\* an id whose slot the host has written is asked for again after other ids
\* were created
LookupConsistency_witness ==
    /\ call.op = "get_or_create"
    /\ call.ret = 1
    /\ call.pre.state_count = 3
    /\ call.pre.state_ptr[1].id = call.id
    /\ ctx.state_ptr[1].flags = 42
    /\ ctx.state_ptr[1].value = 5

(***************************************************************************)
(* C27  Focus change detection: for any interleaving of ClayKit_BeginFrame,*)
(* ClayKit_SetFocus and ClayKit_ClearFocus after ClayKit_Init,             *)
(* ClayKit_FocusChanged returns true exactly when the currently focused id *)
(* differs from the id that was focused at the most recent                 *)
(* ClayKit_BeginFrame (at ClayKit_Init if there was none); it is false     *)
(* immediately after every ClayKit_BeginFrame and true after a             *)
(* ClayKit_SetFocus to an id other than that one.                          *)
(***************************************************************************)
FocusChangeDetection ==
    /\ call.op = "focus_changed"
       => (call.ret <=> call.focus_now # call.frame_focus)
    /\ call.op = "begin_frame" => ~ClayKit_FocusChanged(ctx)
    /\ (call.op = "set_focus" /\ call.id # call.frame_focus)
       => ClayKit_FocusChanged(ctx)
    /\ ClayKit_FocusChanged(ctx) <=> call.focus_now # call.frame_focus

\* a frame began with element 1 focused, the focus then moved to element 2,
\* and ClayKit_FocusChanged answered true
FocusChangeDetection_witness ==
    /\ call.op = "focus_changed"
    /\ call.frame_focus = 1
    /\ call.focus_now = 2
    /\ call.ret = TRUE

====
